---------------------------- MODULE Spec2Model ----------------------------
(***************************************************************************)
(* Retained-metrics engine of the envoy monitoring agent:                  *)
(* src/src/time_series.rs (TimeSeriesRow, Statistics, bucket truncation),  *)
(* src/src/state.rs (AppState: the bundle of four series behind one        *)
(* tokio RwLock) and src/src/tasks.rs (the periodic tasks).                *)
(*                                                                         *)
(* Instants are seconds since the Unix epoch (UTC).  A BTreeMap is a       *)
(* function whose DOMAIN is its key set; iteration is by ascending key.    *)
(* Option<T> is a record with an is_some flag.                             *)
(***************************************************************************)
EXTENDS Integers, Sequences, FiniteSets, TLC

VARIABLES
    ts,            \* AppState.time_series: series name -> TimeSeriesRow
    system_state,  \* AppState.system_state: the last SystemState stored
    now,           \* the wall clock read by Utc::now()
    applied,       \* history variable: appends performed on each series
    last,          \* history variable: the last mutating bundle operation
    hist,          \* the HistoryResponse of the last history() call, if any
    arg,           \* input instant of the truncation harness
    res,           \* result of the truncation harness
    lock,          \* the RwLock around time_series: its writer, its readers
                   \* and the tasks waiting for it, in order of arrival
    sys_lock,      \* the RwLock around system_state: its writer
    pc,            \* where each task stands in its handler
    idx,           \* the next series (position in Order) a task turns to
    pending,       \* the new_state an update_state call in progress holds
    resp,          \* the summaries a history call in progress has built
    seen,          \* history variable: applied[s] when resp[r][s] was built
    task,          \* where each background task stands in BackgroundTask::start
    shutdown_rx,   \* whether a shutdown message waits in each task's receiver
    inventory,     \* AppState.inventory: the last Inventory stored
    new_inventory  \* the Inventory a FetchInventory run in progress holds

harness == <<arg, res>>
conc == <<lock, sys_lock, pc, idx, pending, resp, seen>>
bg == <<task, shutdown_rx, inventory, new_inventory>>
vars == <<ts, system_state, now, applied, last, hist, arg, res,
          lock, sys_lock, pc, idx, pending, resp, seen,
          task, shutdown_rx, inventory, new_inventory>>

---------------------------------------------------------------------------
(* Calendar constants of chrono *)

HOUR == 3600
DAY == 86400
RetentionDays == 14

\* bounds of the model
MaxIngest == 3     \* update_state calls that reach the series
MaxTrunc == 800    \* size of the truncation harness' input grid
ConcIngest == 2    \* update_state calls in the interleaved specification
MaxLen == 3        \* points handed to one from_points call
MaxPoint == 3      \* magnitude of a point handed to from_points

HalfHour == HOUR \div 2
\* 1970-01-18T00:00:00Z, a Sunday: the last day of its Monday-based week
Base == 17 * DAY
Sunday == Base
Monday == Base + DAY
Tuesday == Base + 2 * DAY

\* sample instants: one in the week before, two in the same hour, one in the
\* next hour of that day, one on the next day of that week
Instants == {Sunday, Monday, Monday + HalfHour, Monday + HOUR, Tuesday}
\* clock readings: within the first hour of Monday, 24 h after its start,
\* and one retention horizon after Monday 00:30
NowSet ==
    {Monday + HalfHour, Tuesday, Monday + HalfHour + RetentionDays * DAY}
\* sampled pv values
Vals == {0, 1}

\* harness inputs: a 1700 s grid, so that every sub-hour offset that is a
\* multiple of 100 s occurs, over more than two weeks, and every midnight
TruncStep == 17 * 100
TruncInputs ==
    {Base + i * TruncStep : i \in 0..MaxTrunc}
        \cup {Base + d * DAY : d \in 0..(MaxTrunc \div 50)}

---------------------------------------------------------------------------
(* Option<T> *)

None == [is_some |-> FALSE]
Some(x) == [is_some |-> TRUE, value |-> x]

(* BTreeMap *)

EmptyMap == << >>
Insert(m, k, v) == [x \in (DOMAIN m) \cup {k} |-> IF x = k THEN v ELSE m[x]]
Get(m, k) == IF k \in DOMAIN m THEN Some(m[k]) ELSE None
Restrict(m, K) == [x \in K |-> m[x]]

SetMax(S) == CHOOSE x \in S : \A y \in S : y <= x
SetMin(S) == CHOOSE x \in S : \A y \in S : x <= y

RECURSIVE Ascending(_)
\* the keys of a BTreeMap in iteration order
Ascending(S) ==
    IF S = {} THEN << >>
    ELSE LET m == SetMin(S) IN <<m>> \o Ascending(S \ {m})

---------------------------------------------------------------------------
(* Bucket truncation, time_series.rs:8-23 *)

\* chrono Weekday::number_from_monday: Monday = 1 .. Sunday = 7
\* (1970-01-01 was a Thursday)
number_from_monday(t) == (((t \div DAY) + 3) % 7) + 1

truncate_to_hour(t) == t - (t % HOUR)

\* a day truncation that keeps the half hour of the instant
truncate_to_day_half_hour(t) == t - (t % HalfHour)

truncate_to_day(t) == t - (t % DAY)

\* a week truncation that adds the weekday's days instead of subtracting them
truncate_to_week_forward(t) == truncate_to_day(t + number_from_monday(t) * DAY)

truncate_to_week(t) == truncate_to_day(t - number_from_monday(t) * DAY)

\* the truncation function handed to aggregate_generic, by name
Granularities == {"hour", "day", "week"}

Truncate(g, t) ==
    CASE g = "hour" -> truncate_to_hour(t)
      [] g = "day"  -> truncate_to_day(t)
      [] g = "week" -> truncate_to_week(t)

---------------------------------------------------------------------------
(* Statistics, time_series.rs:25-58 *)

\* i64 division truncates toward zero; a zero divisor panics (TLC stops)
TruncDiv(a, b) == IF a >= 0 THEN a \div b ELSE 0 - ((0 - a) \div b)

\* a fold step whose first arm of the min match yields None
FoldStepMinUnset(acc, value) ==
    [sum   |-> acc.sum + value,
     max   |-> IF ~acc.max.is_some THEN Some(value)
               ELSE IF acc.max.value < value THEN Some(value)
               ELSE acc.max,
     min   |-> IF ~acc.min.is_some THEN None
               ELSE IF acc.min.value > value THEN Some(value)
               ELSE acc.min,
     count |-> acc.count + 1]

\* a fold step whose max match keeps the maximum it has
FoldStepMaxFirst(acc, value) ==
    [sum   |-> acc.sum + value,
     max   |-> IF ~acc.max.is_some THEN Some(value) ELSE acc.max,
     min   |-> IF ~acc.min.is_some THEN Some(value)
               ELSE IF acc.min.value > value THEN Some(value)
               ELSE acc.min,
     count |-> acc.count + 1]

\* one step of the fold at time_series.rs:38-50
FoldStep(acc, value) ==
    [sum   |-> acc.sum + value,
     max   |-> IF ~acc.max.is_some THEN Some(value)
               ELSE IF acc.max.value < value THEN Some(value)
               ELSE acc.max,
     min   |-> IF ~acc.min.is_some THEN Some(value)
               ELSE IF acc.min.value > value THEN Some(value)
               ELSE acc.min,
     count |-> acc.count + 1]

RECURSIVE Fold(_, _)
Fold(acc, values) ==
    IF values = << >> THEN acc
    ELSE Fold(FoldStep(acc, Head(values)), Tail(values))

\* a division that rounds toward minus infinity instead
AverageFloor(sum, count) == sum \div count

Average(sum, count) == TruncDiv(sum, count)

\* what is left of a from_points call whose division panicked
DivideByZero == [panic |-> "attempt to divide by zero"]

\* Statistics::from_points over the values in iteration order; on an empty
\* collection count is 0 and `sum / (count as i64)` panics
from_points(values) ==
    LET f == Fold([sum |-> 0, max |-> None, min |-> None, count |-> 0], values)
    IN  IF f.count = 0 THEN DivideByZero
        ELSE [average |-> Average(f.sum, f.count),
              count   |-> f.count,
              max     |-> f.max,
              min     |-> f.min]

---------------------------------------------------------------------------
(* TimeSeriesRow, time_series.rs:60-152 *)

EmptyRow ==
    [raw_data |-> EmptyMap, hourly_data |-> EmptyMap,
     daily_data |-> EmptyMap, weekly_data |-> EmptyMap]

\* the oldest bucket of the raw series instead of the most recent one
oldest_truncated(raw, f) == SetMin({Truncate(f, d) : d \in DOMAIN raw})

\* the bucket whose statistics aggregate_generic recomputes
current_truncated(raw, f) == SetMax({Truncate(f, d) : d \in DOMAIN raw})

\* a filter that compares the instant itself with the current bucket
current_values_by_instant(raw, f) ==
    LET cur  == current_truncated(raw, f)
        keys == Ascending({d \in DOMAIN raw : d = cur})
    IN  [i \in 1..Len(keys) |-> raw[keys[i]]]

\* the values of the raw points of the current bucket, in key order
current_values(raw, f) ==
    LET cur  == current_truncated(raw, f)
        keys == Ascending({d \in DOMAIN raw : Truncate(f, d) = cur})
    IN  [i \in 1..Len(keys) |-> raw[keys[i]]]

\* aggregate_generic: None on an empty raw series, else the entry to store
aggregate_generic(raw, f) ==
    IF DOMAIN raw = {} THEN None
    ELSE Some([dt   |-> current_truncated(raw, f),
               stat |-> from_points(current_values(raw, f))])

\* one `if let Some((dt, stat)) = ... { store.insert(dt, stat) }`
Store(store, agg) ==
    IF agg.is_some THEN Insert(store, agg.value.dt, agg.value.stat) ELSE store

aggregate(row) ==
    [raw_data    |-> row.raw_data,
     hourly_data |-> Store(row.hourly_data,
                           aggregate_generic(row.raw_data, "hour")),
     daily_data  |-> Store(row.daily_data,
                           aggregate_generic(row.raw_data, "day")),
     weekly_data |-> Store(row.weekly_data,
                           aggregate_generic(row.raw_data, "week"))]

\* the statistics of the raw points of one given bucket
aggregate_bucket(raw, f, bucket) ==
    LET keys == Ascending({d \in DOMAIN raw : Truncate(f, d) = bucket})
    IN  from_points([i \in 1..Len(keys) |-> raw[keys[i]]])

\* an append that also recomputes the buckets of the sample it was given
append_own_buckets(row, dt, datum) ==
    LET raw == Insert(row.raw_data, dt, datum)
        r   == aggregate([row EXCEPT !.raw_data = raw])
    IN  [raw_data    |-> raw,
         hourly_data |-> Insert(r.hourly_data, truncate_to_hour(dt),
                                aggregate_bucket(raw, "hour", truncate_to_hour(dt))),
         daily_data  |-> Insert(r.daily_data, truncate_to_day(dt),
                                aggregate_bucket(raw, "day", truncate_to_day(dt))),
         weekly_data |-> Insert(r.weekly_data, truncate_to_week(dt),
                                aggregate_bucket(raw, "week", truncate_to_week(dt)))]

\* an append that recomputes the buckets of the sample it was given instead
\* of the most recent ones
append_sample_bucket(row, dt, datum) ==
    LET raw == Insert(row.raw_data, dt, datum)
    IN  [raw_data    |-> raw,
         hourly_data |-> Insert(row.hourly_data, truncate_to_hour(dt),
                                aggregate_bucket(raw, "hour", truncate_to_hour(dt))),
         daily_data  |-> Insert(row.daily_data, truncate_to_day(dt),
                                aggregate_bucket(raw, "day", truncate_to_day(dt))),
         weekly_data |-> Insert(row.weekly_data, truncate_to_week(dt),
                                aggregate_bucket(raw, "week", truncate_to_week(dt)))]

\* an append that keeps the point already stored at the instant
append_keep_first(row, dt, datum) ==
    aggregate([row EXCEPT !.raw_data =
                   IF dt \in DOMAIN row.raw_data THEN row.raw_data
                   ELSE Insert(row.raw_data, dt, datum)])

append(row, dt, datum) ==
    aggregate([row EXCEPT !.raw_data = Insert(row.raw_data, dt, datum)])

\* a filter that drops the entry exactly 24 h old
InLast24hStrict(d, yesterday) == d > yesterday

\* the filter at time_series.rs:94
InLast24h(d, yesterday) == d >= yesterday

\* last_24h in the order the BTreeMap yields and serializes its entries
last_24h(row, t) ==
    LET yesterday == t - DAY
        keys == Ascending({d \in DOMAIN row.hourly_data : InLast24h(d, yesterday)})
    IN  [i \in 1..Len(keys) |-> <<keys[i], row.hourly_data[keys[i]].average>>]

\* a summary that takes Monday midnight as the key of the week
summary_week_from_monday(row, t) ==
    [hour     |-> Get(row.hourly_data, truncate_to_hour(t)),
     day      |-> Get(row.daily_data, truncate_to_day(t)),
     week     |-> Get(row.weekly_data,
                      truncate_to_day(t - (number_from_monday(t) - 1) * DAY)),
     last_24h |-> last_24h(row, t)]

\* TimeSeriesRow::summary with Utc::now() = t
summary(row, t) ==
    [hour     |-> Get(row.hourly_data, truncate_to_hour(t)),
     day      |-> Get(row.daily_data, truncate_to_day(t)),
     week     |-> Get(row.weekly_data, truncate_to_week(t)),
     last_24h |-> last_24h(row, t)]

\* a retain predicate that also evicts the point exactly at the horizon
RetainedStrict(d, threshold) == d > threshold

\* the retain predicate at time_series.rs:112
Retained(d, threshold) == d >= threshold

\* BTreeMap::retain with that predicate
Retain(m, threshold) ==
    Restrict(m, {d \in DOMAIN m : Retained(d, threshold)})

\* a retention that prunes the rollup stores along with the raw series
maintain_all_stores(row, t) ==
    LET threshold == t - RetentionDays * DAY
    IN  [raw_data    |-> Retain(row.raw_data, threshold),
         hourly_data |-> Retain(row.hourly_data, threshold),
         daily_data  |-> Retain(row.daily_data, threshold),
         weekly_data |-> Retain(row.weekly_data, threshold)]

\* a retention that recomputes the rollups of what is left
maintain_reaggregating(row, t) ==
    LET threshold == t - RetentionDays * DAY
    IN  aggregate([row EXCEPT !.raw_data = Retain(row.raw_data, threshold)])

\* TimeSeriesRow::maintain with Utc::now() = t
maintain(row, t) ==
    LET threshold == t - RetentionDays * DAY
    IN  [row EXCEPT !.raw_data = Retain(row.raw_data, threshold)]

---------------------------------------------------------------------------
(* AppState, state.rs:27-104 *)

\* field order of the appends in update_state and of history
Series == {"pv_mw", "grid_mw", "load_mw", "storage_mw"}

\* SystemState (the fields the series read, and last_update)
DefaultState ==
    [last_update |-> None, pv_mw |-> 0, grid_mw |-> 0, load_mw |-> 0,
     storage_mw |-> 0]

\* a snapshot as fetch_state builds it: four readings taken at instant dt
Snapshot(dt, v) ==
    [last_update |-> dt, pv_mw |-> v, grid_mw |-> 0 - v, load_mw |-> v - 2,
     storage_mw |-> 2 * v + 1]

Snapshots ==
    {Snapshot(Some(t), v) : t \in Instants, v \in Vals} \cup {Snapshot(None, 0)}

NoResp == [is_some |-> FALSE]
NoOp == [op |-> "none"]

InitBundle ==
    /\ ts = [s \in Series |-> EmptyRow]
    /\ system_state = DefaultState
    /\ now = Monday + HalfHour
    /\ applied = [s \in Series |-> 0]
    /\ last = NoOp
    /\ hist = NoResp

InitHarness ==
    /\ arg = Base
    /\ res = [f |-> "none"]

\* the tasks that share the bundle: the collector (FetchState), the
\* retention task (MaintainState) and two concurrent history requests
Readers == {"r1", "r2"}
Tasks == {"fetch", "maint"} \cup Readers

\* the order in which update_state, maintain and history visit the series
Order == <<"pv_mw", "grid_mw", "load_mw", "storage_mw">>

InitConc ==
    /\ lock = [writer |-> "none", readers |-> {}, waiters |-> << >>]
    /\ sys_lock = "none"
    /\ pc = [t \in Tasks |-> "idle"]
    /\ idx = [t \in Tasks |-> 1]
    /\ pending = DefaultState
    /\ resp = [r \in Readers |-> EmptyMap]
    /\ seen = [r \in Readers |-> EmptyMap]

\* the background tasks, by their LABEL
BgTasks == {"fetch state", "fetch inventory", "maintain state"}

\* Inventory::default()
DefaultInventory == [battery_capacity |-> 0, num_batteries |-> 0]

\* every task is about to make its first run and no shutdown has been sent
InitBg ==
    /\ task = [t \in BgTasks |-> "run"]
    /\ shutdown_rx = [t \in BgTasks |-> FALSE]
    /\ inventory = DefaultInventory
    /\ new_inventory = DefaultInventory

Init == InitBundle /\ InitHarness /\ InitConc /\ InitBg

\* the four appends of update_state, state.rs:84-90
AppendAll(bundle, dt, new_state) ==
    [s \in Series |-> append(bundle[s], dt, new_state[s])]

\* AppState::update_state, run to completion
UpdateState(new_state) ==
    /\ applied["pv_mw"] < MaxIngest
    /\ IF ~new_state.last_update.is_some
       THEN UNCHANGED <<ts, system_state, applied, last, hist>>
       ELSE /\ ts' = AppendAll(ts, new_state.last_update.value, new_state)
            /\ system_state' = new_state
            /\ applied' = [s \in Series |-> applied[s] + 1]
            /\ last' = [op |-> "append", dt |-> new_state.last_update.value,
                        state |-> new_state]
            /\ hist' = NoResp
    /\ UNCHANGED <<now, harness, bg, conc>>

\* AppState::maintain, run to completion
Maintain ==
    /\ ts' = [s \in Series |-> maintain(ts[s], now)]
    /\ last' = [op |-> "maintain", now |-> now]
    /\ hist' = NoResp
    /\ UNCHANGED <<system_state, now, applied, harness, bg, conc>>

\* a history whose summaries drop the hourly entries they leave out of
\* last_24h from the store
HistoryPruning ==
    /\ hist' = Some([now |-> now, resp |-> [s \in Series |-> summary(ts[s], now)]])
    /\ ts' = [s \in Series |->
                [ts[s] EXCEPT !.hourly_data = Retain(ts[s].hourly_data, now - DAY)]]
    /\ UNCHANGED <<system_state, now, applied, last, harness, bg, conc>>

\* AppState::history, run to completion
History ==
    /\ hist' = Some([now |-> now, resp |-> [s \in Series |-> summary(ts[s], now)]])
    /\ UNCHANGED <<ts, system_state, now, applied, last, harness, bg, conc>>

\* the wall clock advances
Tick ==
    /\ \E t \in NowSet : t > now /\ now' = t
    /\ hist' = NoResp
    /\ UNCHANGED <<ts, system_state, applied, last, harness, bg, conc>>

Next ==
    \/ \E new_state \in Snapshots : UpdateState(new_state)
    \/ Maintain
    \/ History
    \/ Tick

Spec == Init /\ [][Next]_vars

---------------------------------------------------------------------------
(* Vocabulary of the properties *)

Rollup(row, g) ==
    CASE g = "hour" -> row.hourly_data
      [] g = "day"  -> row.daily_data
      [] g = "week" -> row.weekly_data

\* the raw instants of a row that fall in bucket k of granularity g
BucketPoints(row, g, k) == {d \in DOMAIN row.raw_data : Truncate(g, d) = k}

\* the most recent bucket of granularity g over the raw series
CurrentBucket(row, g) == SetMax({Truncate(g, d) : d \in DOMAIN row.raw_data})

RECURSIVE SumOf(_, _)
SumOf(raw, D) ==
    IF D = {} THEN 0
    ELSE LET d == CHOOSE x \in D : TRUE IN raw[d] + SumOf(raw, D \ {d})

Abs(a) == IF a >= 0 THEN a ELSE 0 - a

\* the quotient of a by n > 0 rounded toward zero, by its defining property
Quotient(a, n) ==
    CHOOSE q \in (0 - Abs(a))..Abs(a) :
        /\ Abs(q) * n <= Abs(a)
        /\ Abs(a) < (Abs(q) + 1) * n
        /\ (a >= 0 => q >= 0)
        /\ (a <= 0 => q <= 0)

\* the Statistics of the raw points at the non-empty set D of instants
StatsOf(raw, D) ==
    [average |-> Quotient(SumOf(raw, D), Cardinality(D)),
     count   |-> Cardinality(D),
     max     |-> Some(SetMax({raw[d] : d \in D})),
     min     |-> Some(SetMin({raw[d] : d \in D}))]

Field(sum, g) ==
    CASE g = "hour" -> sum.hour
      [] g = "day"  -> sum.day
      [] g = "week" -> sum.week

---------------------------------------------------------------------------
\* C2: right after every append, each rollup store holds at the key of the
\* most recent raw bucket (the greatest truncation over the stored raw
\* points) exactly the count, truncating average, min and max of the raw
\* points of that bucket.
C2_CurrentBucketRecomputed ==
    last.op = "append" =>
        \A s \in Series : \A g \in Granularities :
            LET row == ts[s]
                cur == CurrentBucket(row, g)
            IN  /\ cur \in DOMAIN Rollup(row, g)
                /\ Rollup(row, g)[cur] =
                       StatsOf(row.raw_data, BucketPoints(row, g, cur))

\* an out-of-order append: the sample's hour is older than the current hour,
\* which holds two points whose sum is odd and negative
C2_Witness ==
    /\ last.op = "append"
    /\ LET row == ts["load_mw"]
           cur == CurrentBucket(row, "hour")
       IN  /\ truncate_to_hour(last.dt) < cur
           /\ Cardinality(BucketPoints(row, "hour", cur)) = 2
           /\ SumOf(row.raw_data, BucketPoints(row, "hour", cur)) = 0 - 3

---------------------------------------------------------------------------
\* C3 as stated: once a rollup store holds an entry of a later bucket (the
\* bucket at k is no longer the most recent one), the entry at k keeps its
\* statistics through every later append and retain_recent.
C3_FrozenForever ==
    [][\A s \in Series : \A g \in Granularities :
         \A k \in DOMAIN Rollup(ts[s], g) :
            (\E k2 \in DOMAIN Rollup(ts[s], g) : k2 > k) =>
                /\ k \in DOMAIN Rollup(ts'[s], g)
                /\ Rollup(ts'[s], g)[k] = Rollup(ts[s], g)[k]]_vars

\* C3 amended: a rollup entry keeps its statistics through every append and
\* retain_recent after which the raw series still holds a point of a later
\* bucket; only once retention has evicted every later point can an append
\* make the bucket current again and recompute its entry.
C3_FrozenWhileSuperseded ==
    [][\A s \in Series : \A g \in Granularities :
         \A k \in DOMAIN Rollup(ts[s], g) :
            (\E d \in DOMAIN ts'[s].raw_data : Truncate(g, d) > k) =>
                /\ k \in DOMAIN Rollup(ts'[s], g)
                /\ Rollup(ts'[s], g)[k] = Rollup(ts[s], g)[k]]_vars

\* a backfilled sample was appended into a bucket that is no longer current,
\* and the bucket's entry still counts fewer points than the raw series holds
C3_Witness ==
    /\ last.op = "append"
    /\ \E s \in Series : \E g \in Granularities :
         LET k == Truncate(g, last.dt)
         IN  /\ k \in DOMAIN Rollup(ts[s], g)
             /\ k < CurrentBucket(ts[s], g)
             /\ Rollup(ts[s], g)[k].count
                    < Cardinality(BucketPoints(ts[s], g, k))

---------------------------------------------------------------------------
\* C4 as stated: after any ingest of (t, v), a summary taken with now in the
\* same hour as t has its hour field present and equal to the Statistics of
\* the raw points whose truncated hour is truncate_hour(t).
C4_HourAfterAnyIngest ==
    (hist.is_some /\ last.op = "append"
        /\ truncate_to_hour(hist.value.now) = truncate_to_hour(last.dt)) =>
        \A s \in Series :
            hist.value.resp[s].hour =
                Some(StatsOf(ts[s].raw_data,
                             BucketPoints(ts[s], "hour", truncate_to_hour(last.dt))))

\* C4 amended: the same, provided no stored raw point lies in a later hour
\* than t (t's hour is the most recent hourly bucket of the series).
C4_HourAfterCurrentIngest ==
    (hist.is_some /\ last.op = "append"
        /\ truncate_to_hour(hist.value.now) = truncate_to_hour(last.dt)) =>
        \A s \in Series :
            CurrentBucket(ts[s], "hour") = truncate_to_hour(last.dt) =>
                hist.value.resp[s].hour =
                    Some(StatsOf(ts[s].raw_data,
                                 BucketPoints(ts[s], "hour", truncate_to_hour(last.dt))))

\* a summary in the hour of the last ingest, whose hour is current and holds
\* two points, while an older hour also has an entry
C4_Witness ==
    /\ hist.is_some /\ last.op = "append"
    /\ truncate_to_hour(hist.value.now) = truncate_to_hour(last.dt)
    /\ \A s \in Series :
         /\ CurrentBucket(ts[s], "hour") = truncate_to_hour(last.dt)
         /\ Cardinality(BucketPoints(ts[s], "hour", truncate_to_hour(last.dt))) = 2
         /\ hist.value.resp[s].hour.is_some
         /\ Cardinality(DOMAIN ts[s].hourly_data) >= 2

---------------------------------------------------------------------------
\* C5: one ingest of (t, v) on an empty bundle, then a summary with now in
\* the same hour, day and week as t: for every metric the hour, day and week
\* entries are present with count 1 and average = min = max = the value.
C5_FirstIngestSummary ==
    (hist.is_some /\ last.op = "append" /\ \A s \in Series : applied[s] = 1) =>
        \A s \in Series : \A g \in Granularities :
            Truncate(g, hist.value.now) = Truncate(g, last.dt) =>
                Field(hist.value.resp[s], g) =
                    Some([average |-> last.state[s], count |-> 1,
                          max |-> Some(last.state[s]),
                          min |-> Some(last.state[s])])

\* the first ingest is on a Monday, the summary half an hour later
C5_Witness ==
    /\ hist.is_some /\ last.op = "append"
    /\ \A s \in Series : applied[s] = 1
    /\ number_from_monday(last.dt) = 1
    /\ hist.value.now = last.dt + HalfHour
    /\ \A s \in Series : \A g \in Granularities :
         Field(hist.value.resp[s], g).is_some
    /\ last.state["pv_mw"] # 0

---------------------------------------------------------------------------
\* C6: retain_recent removes exactly the raw points strictly older than
\* now - 14 days, keeps every other raw point with its value, and leaves the
\* three rollup stores as they were.
C6_RetainRecent ==
    [][last'.op = "maintain" =>
         \A s \in Series :
            LET horizon == last'.now - 14 * 24 * 3600
            IN  /\ DOMAIN ts'[s].raw_data =
                       {d \in DOMAIN ts[s].raw_data : ~(d < horizon)}
                /\ \A d \in DOMAIN ts'[s].raw_data :
                       ts'[s].raw_data[d] = ts[s].raw_data[d]
                /\ \A g \in Granularities :
                       Rollup(ts'[s], g) = Rollup(ts[s], g)]_vars

\* after a retention one raw point sits exactly on the horizon, an older one
\* is gone, and an hourly entry wholly older than the horizon is still there
C6_Witness ==
    /\ last.op = "maintain"
    /\ \A s \in Series :
         /\ (last.now - RetentionDays * DAY) \in DOMAIN ts[s].raw_data
         /\ Cardinality(DOMAIN ts[s].raw_data) < applied[s]
         /\ \E k \in DOMAIN ts[s].hourly_data :
                k + HOUR <= last.now - RetentionDays * DAY

---------------------------------------------------------------------------
\* C7: last_24h holds exactly the hourly entries whose key is >= now - 24 h,
\* each with that entry's average, in ascending key order.
C7_Last24h ==
    hist.is_some =>
        \A s \in Series :
            LET l == hist.value.resp[s].last_24h
                H == ts[s].hourly_data
            IN  /\ {l[i][1] : i \in DOMAIN l} =
                       {k \in DOMAIN H : k >= hist.value.now - 24 * 3600}
                /\ \A i \in DOMAIN l : l[i][2] = H[l[i][1]].average
                /\ \A i, j \in DOMAIN l : i < j => l[i][1] < l[j][1]

\* a response with two entries, the older one exactly 24 h old, while a
\* still older hourly entry is left out
C7_Witness ==
    /\ hist.is_some
    /\ \E s \in Series :
         LET l == hist.value.resp[s].last_24h
         IN  /\ Len(l) = 2
             /\ l[1][1] = hist.value.now - DAY
             /\ \E k \in DOMAIN ts[s].hourly_data : k < hist.value.now - DAY

---------------------------------------------------------------------------
\* C10: the key set of every rollup store only grows, and a rollup store
\* changes only in a step that appends to its series.
C10_RollupsNeverRemoved ==
    [][\A s \in Series : \A g \in Granularities :
         /\ DOMAIN Rollup(ts[s], g) \subseteq DOMAIN Rollup(ts'[s], g)
         /\ Rollup(ts'[s], g) # Rollup(ts[s], g) =>
                applied'[s] = applied[s] + 1]_vars

\* retention has emptied the raw series and the rollup entries, older than
\* the horizon, are still there
C10_Witness ==
    /\ last.op = "maintain"
    /\ \A s \in Series :
         /\ ts[s].raw_data = EmptyMap
         /\ \A g \in Granularities : Cardinality(DOMAIN Rollup(ts[s], g)) >= 2
         /\ \A k \in DOMAIN ts[s].hourly_data :
                k < last.now - RetentionDays * DAY

---------------------------------------------------------------------------
(* The truncation functions applied to single instants *)

InitTrunc ==
    /\ InitBundle /\ InitConc /\ InitBg
    /\ arg \in TruncInputs
    /\ res = [f |-> "none"]

ApplyHour ==
    /\ res' = [f |-> "hour", out |-> truncate_to_hour(arg)]
    /\ UNCHANGED <<ts, system_state, now, applied, last, hist, arg, conc, bg>>

ApplyDay ==
    /\ res' = [f |-> "day", out |-> truncate_to_day(arg)]
    /\ UNCHANGED <<ts, system_state, now, applied, last, hist, arg, conc, bg>>

ApplyWeek ==
    /\ res' = [f |-> "week", out |-> truncate_to_week(arg)]
    /\ UNCHANGED <<ts, system_state, now, applied, last, hist, arg, conc, bg>>

NextTrunc == ApplyHour \/ ApplyDay \/ ApplyWeek

SpecTrunc == InitTrunc /\ [][NextTrunc]_vars

\* the weekday of an instant, 0 = Monday .. 6 = Sunday, from the calendar
\* (1970-01-05 was a Monday)
DaysSinceMonday(t) == ((t \div (24 * 3600)) - 4) % 7

\* C8: each of truncate_hour, truncate_day and truncate_week is idempotent:
\* truncating its own result gives that result again.
C8_TruncateIdempotent ==
    res.f \in Granularities => Truncate(res.f, res.out) = res.out

\* C9: truncate_week(t) is midnight of the most recent Monday on or before
\* t, so truncate_week(t) <= t < truncate_week(t) + 7 days.
C9_WeekStartsMonday ==
    res.f = "week" =>
        /\ res.out % (24 * 3600) = 0
        /\ DaysSinceMonday(res.out) = 0
        /\ res.out <= arg
        /\ arg < res.out + 7 * 24 * 3600

---------------------------------------------------------------------------
(* The handlers of AppState step by step, under the two RwLocks.  A step is *)
(* a lock acquisition, one per-series call made while the lock is held, or  *)
(* a release.                                                              *)

\* a reader that takes the lock whatever its state
CanReadUnlocked(l) == TRUE

\* RwLock::read is granted while no writer holds the lock
CanRead(l) == l.writer = "none"

\* a write that is granted whenever no other writer holds the lock
CanWriteAmongReaders(l) == l.writer = "none"

\* RwLock::write is granted while nobody holds the lock
CanWrite(l) == l.writer = "none" /\ l.readers = {}

\* the snapshots of the interleaved specification
ConcSnapshots ==
    {Snapshot(Some(t), 1) : t \in {Monday, Monday + HOUR}}
        \cup {Snapshot(None, 0)}

\* update_state is called: state.rs:80-82
UsCall(new_state) ==
    /\ pc["fetch"] = "idle"
    /\ applied["pv_mw"] < ConcIngest
    /\ IF ~new_state.last_update.is_some
       THEN UNCHANGED <<pc, pending>>
       ELSE /\ pc' = [pc EXCEPT !["fetch"] = "write_wait"]
            /\ pending' = new_state
    /\ UNCHANGED <<ts, system_state, now, applied, last, hist, harness, bg,
                   lock, sys_lock, idx, resp, seen>>

\* self.time_series.write().await: state.rs:83
UsAcquire ==
    /\ pc["fetch"] = "write_wait"
    /\ CanWrite(lock)
    /\ lock' = [lock EXCEPT !.writer = "fetch"]
    /\ pc' = [pc EXCEPT !["fetch"] = "append"]
    /\ idx' = [idx EXCEPT !["fetch"] = 1]
    /\ UNCHANGED <<ts, system_state, now, applied, last, hist, harness, bg,
                   sys_lock, pending, resp, seen>>

\* one of the four appends: state.rs:84-89
UsAppend ==
    /\ pc["fetch"] = "append"
    /\ LET s == Order[idx["fetch"]]
       IN  /\ ts' = [ts EXCEPT ![s] = append(ts[s], pending.last_update.value,
                                            pending[s])]
           /\ applied' = [applied EXCEPT ![s] = applied[s] + 1]
    /\ IF idx["fetch"] < Len(Order)
       THEN /\ idx' = [idx EXCEPT !["fetch"] = idx["fetch"] + 1]
            /\ pc' = pc
       ELSE /\ idx' = idx
            /\ pc' = [pc EXCEPT !["fetch"] = "write_held"]
    /\ UNCHANGED <<system_state, now, last, hist, harness, bg, lock, sys_lock,
                   pending, resp, seen>>

\* an update_state that goes on to system_state with the time_series guard
\* still alive
UsReleaseHolding ==
    /\ pc["fetch"] = "write_held"
    /\ pc' = [pc EXCEPT !["fetch"] = "state_wait"]
    /\ UNCHANGED <<ts, system_state, now, applied, last, hist, harness, bg,
                   lock, sys_lock, idx, pending, resp, seen>>

\* drop(time_series_guard): state.rs:90
UsRelease ==
    /\ pc["fetch"] = "write_held"
    /\ lock' = [lock EXCEPT !.writer = "none"]
    /\ pc' = [pc EXCEPT !["fetch"] = "state_wait"]
    /\ UNCHANGED <<ts, system_state, now, applied, last, hist, harness, bg,
                   sys_lock, idx, pending, resp, seen>>

\* self.system_state.write().await: state.rs:92
UsStateAcquire ==
    /\ pc["fetch"] = "state_wait"
    /\ sys_lock = "none"
    /\ sys_lock' = "fetch"
    /\ pc' = [pc EXCEPT !["fetch"] = "state_held"]
    /\ UNCHANGED <<ts, system_state, now, applied, last, hist, harness, bg,
                   lock, idx, pending, resp, seen>>

\* *state_guard = new_state; drop(state_guard): state.rs:93-94
UsStateStore ==
    /\ pc["fetch"] = "state_held"
    /\ system_state' = pending
    /\ sys_lock' = "none"
    /\ pc' = [pc EXCEPT !["fetch"] = "idle"]
    /\ UNCHANGED <<ts, now, applied, last, hist, harness, bg, lock, idx, pending,
                   resp, seen>>

\* maintain: self.time_series.write().await: state.rs:98
MtAcquire ==
    /\ pc["maint"] = "idle"
    /\ CanWrite(lock)
    /\ lock' = [lock EXCEPT !.writer = "maint"]
    /\ pc' = [pc EXCEPT !["maint"] = "maintain"]
    /\ idx' = [idx EXCEPT !["maint"] = 1]
    /\ UNCHANGED <<ts, system_state, now, applied, last, hist, harness, bg,
                   sys_lock, pending, resp, seen>>

\* one of the four maintain calls, each reading the clock: state.rs:99-102
MtMaintain ==
    /\ pc["maint"] = "maintain"
    /\ LET s == Order[idx["maint"]]
       IN  ts' = [ts EXCEPT ![s] = maintain(ts[s], now)]
    /\ IF idx["maint"] < Len(Order)
       THEN /\ idx' = [idx EXCEPT !["maint"] = idx["maint"] + 1]
            /\ pc' = pc
       ELSE /\ idx' = idx
            /\ pc' = [pc EXCEPT !["maint"] = "write_held"]
    /\ UNCHANGED <<system_state, now, applied, last, hist, harness, bg, lock,
                   sys_lock, pending, resp, seen>>

\* the guard is dropped when maintain returns: state.rs:103
MtRelease ==
    /\ pc["maint"] = "write_held"
    /\ lock' = [lock EXCEPT !.writer = "none"]
    /\ pc' = [pc EXCEPT !["maint"] = "idle"]
    /\ UNCHANGED <<ts, system_state, now, applied, last, hist, harness, bg,
                   sys_lock, idx, pending, resp, seen>>

\* history: self.time_series.read().await: state.rs:70
HsAcquire(r) ==
    /\ pc[r] = "idle"
    /\ CanRead(lock)
    /\ lock' = [lock EXCEPT !.readers = lock.readers \cup {r}]
    /\ pc' = [pc EXCEPT ![r] = "summary"]
    /\ idx' = [idx EXCEPT ![r] = 1]
    /\ resp' = [resp EXCEPT ![r] = EmptyMap]
    /\ seen' = [seen EXCEPT ![r] = EmptyMap]
    /\ UNCHANGED <<ts, system_state, now, applied, last, hist, harness, bg,
                   sys_lock, pending>>

\* one of the four summary calls, each reading the clock: state.rs:72-75
HsSummary(r) ==
    /\ pc[r] = "summary"
    /\ LET s == Order[idx[r]]
       IN  /\ resp' = [resp EXCEPT ![r] = Insert(resp[r], s, summary(ts[s], now))]
           /\ seen' = [seen EXCEPT ![r] = Insert(seen[r], s, applied[s])]
    /\ IF idx[r] < Len(Order)
       THEN /\ idx' = [idx EXCEPT ![r] = idx[r] + 1]
            /\ pc' = pc
       ELSE /\ idx' = idx
            /\ pc' = [pc EXCEPT ![r] = "read_held"]
    /\ UNCHANGED <<ts, system_state, now, applied, last, hist, harness, bg, lock,
                   sys_lock, pending>>

\* the response is returned and the read guard dropped: state.rs:77
HsReturn(r) ==
    /\ pc[r] = "read_held"
    /\ lock' = [lock EXCEPT !.readers = lock.readers \ {r}]
    /\ pc' = [pc EXCEPT ![r] = "idle"]
    /\ UNCHANGED <<ts, system_state, now, applied, last, hist, harness, bg,
                   sys_lock, idx, pending, resp, seen>>

NextConc ==
    \/ \E new_state \in ConcSnapshots : UsCall(new_state)
    \/ UsAcquire
    \/ UsAppend
    \/ UsRelease
    \/ UsStateAcquire
    \/ UsStateStore
    \/ MtAcquire
    \/ MtMaintain
    \/ MtRelease
    \/ \E r \in Readers : HsAcquire(r)
    \/ \E r \in Readers : HsSummary(r)
    \/ \E r \in Readers : HsReturn(r)
    \/ Tick

SpecConc == Init /\ [][NextConc]_vars

\* C1: no history call observes the bundle with an ingest applied to some
\* series and not to others: while a reader is inside the bundle all four
\* series have had the same ingests applied, and the summaries of one
\* response were all built from the bundle after the same number of ingests.
C1_IngestAtomicForReaders ==
    \A r \in Readers :
        /\ r \in lock.readers =>
               \A s1, s2 \in Series : applied[s1] = applied[s2]
        /\ \A s1, s2 \in DOMAIN seen[r] : seen[r][s1] = seen[r][s2]

\* one response was built wholly after the first ingest and before the
\* second, while the other reader is building a different one after the second
C1_Witness ==
    /\ pc["r1"] = "idle" /\ DOMAIN seen["r1"] = Series
    /\ \A s \in Series : seen["r1"][s] = 1
    /\ pc["r2"] = "summary" /\ DOMAIN seen["r2"] # {}
    /\ \A s \in DOMAIN seen["r2"] : seen["r2"][s] = 2
    /\ resp["r1"]["pv_mw"] # resp["r2"]["pv_mw"]

---------------------------------------------------------------------------
\* C11: a history call, and so each summary it makes, is a pure read: the
\* step that builds a response leaves the raw series and the three rollup
\* stores of every series, and system_state, as they were, so the calls
\* interleaved into appends and retains change nothing those operate on.
C11_SummaryPureRead ==
    [][hist'.is_some =>
         /\ \A s \in Series :
               /\ ts'[s].raw_data = ts[s].raw_data
               /\ \A g \in Granularities : Rollup(ts'[s], g) = Rollup(ts[s], g)
         /\ system_state' = system_state]_vars

\* a response built after a retention, from a bundle that still holds raw
\* points and an hourly entry too old for last_24h
C11_Witness ==
    /\ hist.is_some /\ last.op = "maintain"
    /\ \A s \in Series :
         /\ ts[s].raw_data # EmptyMap
         /\ \E k \in DOMAIN ts[s].hourly_data : k < hist.value.now - DAY
         /\ Len(hist.value.resp[s].last_24h) < Cardinality(DOMAIN ts[s].hourly_data)

---------------------------------------------------------------------------
\* C12: every Statistics held in a rollup store, and every hour, day or week
\* value a summary returns, has count >= 1 and both min and max present.
C12_StoredStatisticsNonEmpty ==
    /\ \A s \in Series : \A g \in Granularities :
         \A k \in DOMAIN Rollup(ts[s], g) :
            LET st == Rollup(ts[s], g)[k]
            IN  st.count >= 1 /\ st.min.is_some /\ st.max.is_some
    /\ hist.is_some =>
         \A s \in Series : \A g \in Granularities :
            LET f == Field(hist.value.resp[s], g)
            IN  f.is_some =>
                    /\ f.value.count >= 1
                    /\ f.value.min.is_some
                    /\ f.value.max.is_some

\* a summary returns an hour entry over two points with min < max
C12_Witness ==
    /\ hist.is_some
    /\ LET f == hist.value.resp["pv_mw"].hour
       IN  /\ f.is_some
           /\ f.value.count = 2
           /\ f.value.min.value < f.value.max.value

---------------------------------------------------------------------------
\* C16: from_points is never called on an empty collection: after every
\* append (in order or out of order, after retention has emptied the raw
\* series or not) the bucket aggregate_generic selects holds at least one raw
\* point, and no rollup entry is the result of a division by zero.
C16_NeverEmptyBucket ==
    /\ \A s \in Series : \A g \in Granularities :
         \A k \in DOMAIN Rollup(ts[s], g) : Rollup(ts[s], g)[k] # DivideByZero
    /\ last.op = "append" =>
         \A s \in Series : \A g \in Granularities :
            /\ Len(current_values(ts[s].raw_data, g)) >= 1
            /\ aggregate_generic(ts[s].raw_data, g).value.stat # DivideByZero

\* an out-of-order append after retention has emptied the raw series: the
\* sample is the only raw point and the stores hold a later hour
C16_Witness ==
    /\ last.op = "append"
    /\ \A s \in Series :
         /\ applied[s] = MaxIngest
         /\ DOMAIN ts[s].raw_data = {last.dt}
         /\ \E k \in DOMAIN ts[s].hourly_data : k > truncate_to_hour(last.dt)

---------------------------------------------------------------------------
\* C17 as stated: an append whose instant truncates under g to a bucket that
\* is not the maximum truncated bucket over the raw series leaves the rollup
\* store of g identical.
C17_OutOfOrderOnlyRaw ==
    [][\A s \in Series : \A g \in Granularities :
         (applied'[s] = applied[s] + 1
             /\ Truncate(g, last'.dt) # CurrentBucket(ts'[s], g)) =>
            Rollup(ts'[s], g) = Rollup(ts[s], g)]_vars

\* C17 amended: such an append creates no entry (none for the sample's own
\* bucket) and changes no entry of a bucket other than the maximum one; the
\* store of g is identical before and after whenever the entry of the maximum
\* bucket equalled the statistics of the raw points that bucket held (no
\* retain_recent had evicted points the entry counts).
C17_OutOfOrderOnlyCurrent ==
    [][\A s \in Series : \A g \in Granularities :
         (applied'[s] = applied[s] + 1
             /\ Truncate(g, last'.dt) # CurrentBucket(ts'[s], g)) =>
            LET cur == CurrentBucket(ts'[s], g)
                old == Rollup(ts[s], g)
                new == Rollup(ts'[s], g)
            IN  /\ DOMAIN new = DOMAIN old
                /\ \A k \in DOMAIN old : k # cur => new[k] = old[k]
                /\ old[cur] = StatsOf(ts[s].raw_data, BucketPoints(ts[s], g, cur))
                       => new = old]_vars

\* a backfilled sample older than every stored hour has just been appended:
\* the raw series holds it and the hourly store has no entry for its hour
C17_Witness ==
    /\ last.op = "append"
    /\ \A s \in Series :
         /\ last.dt \in DOMAIN ts[s].raw_data
         /\ truncate_to_hour(last.dt) < CurrentBucket(ts[s], "hour")
         /\ truncate_to_hour(last.dt) \notin DOMAIN ts[s].hourly_data
         /\ ts[s].hourly_data # EmptyMap

---------------------------------------------------------------------------
\* C19: the raw series holds one point per instant and the latest write
\* wins: an append at an instant the raw series already holds replaces that
\* point's value and nothing else; when it directly follows an append at the
\* same instant and the instant lies in the current bucket, the bucket's
\* entry keeps its count and holds the statistics with the new value.
C19_LatestWriteWins ==
    [][\A s \in Series :
         (applied'[s] = applied[s] + 1
             /\ last'.dt \in DOMAIN ts[s].raw_data) =>
            /\ DOMAIN ts'[s].raw_data = DOMAIN ts[s].raw_data
            /\ ts'[s].raw_data[last'.dt] = last'.state[s]
            /\ \A d \in DOMAIN ts[s].raw_data :
                   d # last'.dt => ts'[s].raw_data[d] = ts[s].raw_data[d]
            /\ (last.op = "append" /\ last.dt = last'.dt) =>
                   \A g \in Granularities :
                      LET cur == CurrentBucket(ts'[s], g)
                      IN  Truncate(g, last'.dt) = cur =>
                             /\ Rollup(ts'[s], g)[cur].count
                                    = Rollup(ts[s], g)[cur].count
                             /\ Rollup(ts'[s], g)[cur] =
                                    StatsOf(ts'[s].raw_data,
                                            BucketPoints(ts'[s], g, cur))]_vars

\* three ingests at two instants of one hour: the later instant was written
\* last, and the hour entry counts two points
C19_Witness ==
    /\ last.op = "append"
    /\ \A s \in Series :
         /\ applied[s] = MaxIngest
         /\ Cardinality(DOMAIN ts[s].raw_data) = 2
         /\ truncate_to_hour(last.dt) = CurrentBucket(ts[s], "hour")
         /\ ts[s].hourly_data[truncate_to_hour(last.dt)].count = 2
         /\ ts[s].raw_data[last.dt] = last.state[s]

---------------------------------------------------------------------------
\* C20 as stated: the count of the rollup entry at a bucket key never
\* decreases from one state to the next, through appends and retain_recent.
C20_CountNeverDecreases ==
    [][\A s \in Series : \A g \in Granularities :
         \A k \in DOMAIN Rollup(ts[s], g) :
            /\ k \in DOMAIN Rollup(ts'[s], g)
            /\ Rollup(ts'[s], g)[k].count >= Rollup(ts[s], g)[k].count]_vars

\* C20 amended: the count of the entry at a bucket key does not decrease in
\* any step before which the raw series holds at least as many points of the
\* bucket as the entry counts; it decreases only when an append recomputes a
\* bucket some of whose counted points retain_recent has evicted.
C20_CountKeptWhileRawKept ==
    [][\A s \in Series : \A g \in Granularities :
         \A k \in DOMAIN Rollup(ts[s], g) :
            Rollup(ts[s], g)[k].count <= Cardinality(BucketPoints(ts[s], g, k)) =>
                /\ k \in DOMAIN Rollup(ts'[s], g)
                /\ Rollup(ts'[s], g)[k].count >= Rollup(ts[s], g)[k].count]_vars

\* retention has evicted Monday 00:00, which the day entry of Monday counted,
\* and a later append has recomputed the week entry over the two points left
C20_Witness ==
    /\ last.op = "append" /\ last.dt = Tuesday
    /\ \A s \in Series :
         /\ DOMAIN ts[s].raw_data = {Monday + HOUR, Tuesday}
         /\ Monday \in DOMAIN ts[s].daily_data
         /\ ts[s].daily_data[Monday].count = 2
         /\ truncate_to_week(Tuesday) \in DOMAIN ts[s].weekly_data
         /\ ts[s].weekly_data[truncate_to_week(Tuesday)].count = 2

---------------------------------------------------------------------------
\* C18: each of truncate_hour, truncate_day and truncate_week preserves the
\* order of instants: t1 <= t2 implies truncate(t1) <= truncate(t2), so the
\* greatest truncated key of two raw points is the bucket of the later one.
C18_TruncateMonotone ==
    res.f \in Granularities =>
        \A t2 \in TruncInputs :
            /\ arg <= t2 => res.out <= Truncate(res.f, t2)
            /\ t2 <= arg => Truncate(res.f, t2) <= res.out
            /\ SetMax({res.out, Truncate(res.f, t2)})
                   = Truncate(res.f, SetMax({arg, t2}))

\* truncate_week applied to a Sunday evening: among the inputs are an
\* earlier instant of the same week bucket and the Monday that follows, which
\* lies in the next one
C18_Witness ==
    /\ res.f = "week"
    /\ number_from_monday(arg) = 7
    /\ arg % DAY # 0
    /\ \E t1 \in TruncInputs : t1 < arg /\ truncate_to_week(t1) = res.out
    /\ \E t2 \in TruncInputs : arg < t2 /\ res.out < truncate_to_week(t2)

---------------------------------------------------------------------------
\* a task is inside the bundle from the step that grants it the lock to the
\* step that drops its guard
Inside(t) ==
    CASE t = "fetch" -> pc[t] \in {"append", "write_held"}
      [] t = "maint" -> pc[t] \in {"maintain", "write_held"}
      [] OTHER       -> pc[t] \in {"summary", "read_held"}

\* C13: the bundle lock gives reader-writer exclusion: while an ingest (the
\* append phase of update_state) or a retain_recent (maintain) is inside the
\* bundle no other ingest, retain_recent or summary (history) is inside it,
\* so the four per-series steps of a writer are never interleaved with
\* another task's; summaries may be inside together.  The lock's record of
\* its holders agrees with where the tasks stand.
C13_ReaderWriterExclusion ==
    /\ \A w \in {"fetch", "maint"} :
         Inside(w) => \A t \in Tasks \ {w} : ~Inside(t)
    /\ \A w \in {"fetch", "maint"} : Inside(w) <=> lock.writer = w
    /\ \A r \in Readers : Inside(r) <=> r \in lock.readers

\* two summaries are inside the bundle together, at different series, while
\* an ingest waits for the write lock
C13_Witness ==
    /\ pc["r1"] = "summary" /\ pc["r2"] = "summary"
    /\ idx["r1"] # idx["r2"]
    /\ lock.readers = Readers
    /\ pc["fetch"] = "write_wait"
    /\ applied["pv_mw"] >= 1

---------------------------------------------------------------------------
(* The three background tasks, each looping in BackgroundTask::start:      *)
(* run, then select! between the sleep and the shutdown receiver.  The     *)
(* runs of FetchState and MaintainState go through update_state and        *)
(* maintain step by step, under the locks.  The clock stands still here:   *)
(* what a retention evicts is the subject of Spec and SpecConc.            *)

\* the SystemState values fetch_state builds: last_update is always Some
FetchedStates == {Snapshot(Some(t), 1) : t \in {Monday, Monday + HOUR}}

\* the Inventory values fetch_inventory builds: one battery is reported
Inventories == {[battery_capacity |-> 5, num_batteries |-> 1]}

\* the handler of AppState a task's run goes through
Handler(t) == IF t = "fetch state" THEN "fetch" ELSE "maint"

\* FetchState::run: fetch_state(..).await? returns the error
FsFetchErr ==
    /\ task["fetch state"] = "run"
    /\ task' = [task EXCEPT !["fetch state"] = "failed"]
    /\ last' = [op |-> "fetch_failed", applied |-> applied["pv_mw"]]
    /\ UNCHANGED <<ts, system_state, now, applied, hist, harness, conc,
                   shutdown_rx, inventory, new_inventory>>

\* FetchState::run: fetch_state succeeds and update_state is called with
\* its result, whose last_update is Some
FsFetchOk(new_state) ==
    /\ task["fetch state"] = "run"
    /\ applied["pv_mw"] < ConcIngest
    /\ task' = [task EXCEPT !["fetch state"] = "in_run"]
    /\ pc' = [pc EXCEPT !["fetch"] = "write_wait"]
    /\ pending' = new_state
    /\ UNCHANGED <<ts, system_state, now, applied, last, hist, harness,
                   lock, sys_lock, idx, resp, seen,
                   shutdown_rx, inventory, new_inventory>>

\* FetchInventory::run: fetch_inventory(..).await? returns the error
FiFetchErr ==
    /\ task["fetch inventory"] = "run"
    /\ task' = [task EXCEPT !["fetch inventory"] = "failed"]
    /\ UNCHANGED <<ts, system_state, now, applied, last, hist, harness, conc,
                   shutdown_rx, inventory, new_inventory>>

\* FetchInventory::run: fetch_inventory succeeds
FiFetchOk(inv) ==
    /\ task["fetch inventory"] = "run"
    /\ task' = [task EXCEPT !["fetch inventory"] = "in_run"]
    /\ new_inventory' = inv
    /\ UNCHANGED <<ts, system_state, now, applied, last, hist, harness, conc,
                   shutdown_rx, inventory>>

\* FetchInventory::run: the inventory is stored under its write guard and
\* run returns Ok(())
FiStore ==
    /\ task["fetch inventory"] = "in_run"
    /\ inventory' = new_inventory
    /\ task' = [task EXCEPT !["fetch inventory"] = "select"]
    /\ UNCHANGED <<ts, system_state, now, applied, last, hist, harness, conc,
                   shutdown_rx, new_inventory>>

\* MaintainState::run: maintain is called and granted the write lock
MsAcquire ==
    /\ task["maintain state"] = "run"
    /\ CanWrite(lock)
    /\ lock' = [lock EXCEPT !.writer = "maint"]
    /\ pc' = [pc EXCEPT !["maint"] = "maintain"]
    /\ idx' = [idx EXCEPT !["maint"] = 1]
    /\ task' = [task EXCEPT !["maintain state"] = "in_run"]
    /\ UNCHANGED <<ts, system_state, now, applied, last, hist, harness,
                   sys_lock, pending, resp, seen,
                   shutdown_rx, inventory, new_inventory>>

\* update_state or maintain has returned, and run returns Ok(())
BtRunOk(t) ==
    /\ task[t] = "in_run"
    /\ pc[Handler(t)] = "idle"
    /\ task' = [task EXCEPT ![t] = "select"]
    /\ UNCHANGED <<ts, system_state, now, applied, last, hist, harness, conc,
                   shutdown_rx, inventory, new_inventory>>

\* a start whose run is followed by `?`: the error ends the task
BtLogErrorReturning(t) ==
    /\ task[t] = "failed"
    /\ task' = [task EXCEPT ![t] = "returned"]
    /\ UNCHANGED <<ts, system_state, now, applied, last, hist, harness, conc,
                   shutdown_rx, inventory, new_inventory>>

\* `if let Err(error) = .. { tracing::error!(..) }`: the error is logged
\* and the loop goes on to its select!
BtLogError(t) ==
    /\ task[t] = "failed"
    /\ task' = [task EXCEPT ![t] = "select"]
    /\ UNCHANGED <<ts, system_state, now, applied, last, hist, harness, conc,
                   shutdown_rx, inventory, new_inventory>>

\* select! is polled with no shutdown message waiting: the task sleeps
BtSleep(t) ==
    /\ task[t] = "select"
    /\ ~shutdown_rx[t]
    /\ task' = [task EXCEPT ![t] = "sleeping"]
    /\ UNCHANGED <<ts, system_state, now, applied, last, hist, harness, conc,
                   shutdown_rx, inventory, new_inventory>>

\* the sleep branch of select! completes and the loop starts the next run
BtWake(t) ==
    /\ task[t] = "sleeping"
    /\ task' = [task EXCEPT ![t] = "run"]
    /\ UNCHANGED <<ts, system_state, now, applied, last, hist, harness, conc,
                   shutdown_rx, inventory, new_inventory>>

\* a start that races the run itself against the shutdown receiver
BtReturnAnywhere(t) ==
    /\ task[t] # "returned"
    /\ shutdown_rx[t]
    /\ task' = [task EXCEPT ![t] = "returned"]
    /\ UNCHANGED <<ts, system_state, now, applied, last, hist, harness, conc,
                   shutdown_rx, inventory, new_inventory>>

\* the shutdown_rx.recv() branch of select! completes: return Ok(())
BtReturn(t) ==
    /\ task[t] \in {"select", "sleeping"}
    /\ shutdown_rx[t]
    /\ task' = [task EXCEPT ![t] = "returned"]
    /\ UNCHANGED <<ts, system_state, now, applied, last, hist, harness, conc,
                   shutdown_rx, inventory, new_inventory>>

\* shutdown_tx.send(()): every receiver gets the message
Shutdown ==
    /\ \A t \in BgTasks : ~shutdown_rx[t]
    /\ shutdown_rx' = [t \in BgTasks |-> TRUE]
    /\ UNCHANGED <<ts, system_state, now, applied, last, hist, harness, conc,
                   task, inventory, new_inventory>>

\* an append step of update_state as the scheduler sees it: the task that
\* stands at an append takes it; what the append stores is UsAppend's
UsAppendTaken ==
    /\ pc["fetch"] = "append"
    /\ applied' = [applied EXCEPT ![Order[idx["fetch"]]] =
                                      applied[Order[idx["fetch"]]] + 1]

\* the steps of each task (those of FetchState other than its appends)
FetchStateNext ==
    \/ FsFetchErr
    \/ \E new_state \in FetchedStates : FsFetchOk(new_state)
    \/ UsAcquire \/ UsRelease \/ UsStateAcquire \/ UsStateStore
    \/ BtRunOk("fetch state") \/ BtLogError("fetch state")
    \/ BtSleep("fetch state") \/ BtWake("fetch state")
    \/ BtReturn("fetch state")

FetchInventoryNext ==
    \/ FiFetchErr
    \/ \E inv \in Inventories : FiFetchOk(inv)
    \/ FiStore
    \/ BtLogError("fetch inventory")
    \/ BtSleep("fetch inventory") \/ BtWake("fetch inventory")
    \/ BtReturn("fetch inventory")

MaintainStateNext ==
    \/ MsAcquire \/ MtMaintain \/ MtRelease
    \/ BtRunOk("maintain state")
    \/ BtSleep("maintain state") \/ BtWake("maintain state")
    \/ BtReturn("maintain state")

NextTasks ==
    \/ FsFetchErr
    \/ \E new_state \in FetchedStates : FsFetchOk(new_state)
    \/ UsAcquire
    \/ UsAppend
    \/ UsRelease
    \/ UsStateAcquire
    \/ UsStateStore
    \/ FiFetchErr
    \/ \E inv \in Inventories : FiFetchOk(inv)
    \/ FiStore
    \/ MsAcquire
    \/ MtMaintain
    \/ MtRelease
    \/ \E t \in {"fetch state", "maintain state"} : BtRunOk(t)
    \/ \E t \in {"fetch state", "fetch inventory"} : BtLogError(t)
    \/ \E t \in BgTasks : BtSleep(t)
    \/ \E t \in BgTasks : BtWake(t)
    \/ \E t \in BgTasks : BtReturn(t)
    \/ Shutdown

\* the runtime keeps polling a task that can take a step: a fetch ends (the
\* client has a timeout), a lock that is free is granted, a timer fires
SpecTasks ==
    /\ Init /\ [][NextTasks]_vars
    /\ WF_vars(FetchStateNext)
    /\ WF_applied(UsAppendTaken)
    /\ WF_vars(FetchInventoryNext)
    /\ WF_vars(MaintainStateNext)

---------------------------------------------------------------------------
\* C14: when the fetch of a collector cycle fails, update_state is not
\* called for that cycle: the step in which the fetch fails leaves the raw
\* series, the rollup stores and system_state unchanged and takes no lock,
\* the collector is inside no handler while the error is handled, the error
\* only leads on to the select! of the loop and never ends the task, and
\* from there the task goes on to its next run unless it is shut down.
C14_FailedFetchSkipsIngest ==
    /\ [][(task'["fetch state"] = "failed" /\ task["fetch state"] # "failed") =>
             /\ ts' = ts
             /\ system_state' = system_state
             /\ applied' = applied
             /\ lock' = lock /\ sys_lock' = sys_lock]_vars
    /\ [](task["fetch state"] = "failed" =>
             /\ pc["fetch"] = "idle"
             /\ lock.writer # "fetch" /\ sys_lock # "fetch")
    /\ [][task["fetch state"] = "failed" =>
             task'["fetch state"] \in {"failed", "select"}]_vars
    /\ (task["fetch state"] = "failed") ~>
           (task["fetch state"] \in {"run", "returned"})

\* a cycle after the failed one has run to its end: every series has had an
\* ingest applied that it had not had when the fetch failed, and
\* system_state holds the snapshot
C14_Witness ==
    /\ last.op = "fetch_failed"
    /\ task["fetch state"] = "select"
    /\ \A s \in Series : applied[s] > last.applied
    /\ \A s \in Series : ts[s].raw_data # EmptyMap
    /\ system_state.last_update.is_some

---------------------------------------------------------------------------
\* C15: once the shutdown message has been broadcast every background task
\* eventually returns Ok(()); a task returns only from the select! that
\* follows a run, with the message in its receiver, so a run that has
\* started is carried to its end: a task that has returned is inside no
\* handler and holds no lock, and it stays returned.
C15_ShutdownEndsTasks ==
    /\ [][\A t \in BgTasks :
             /\ (task'[t] = "returned" /\ task[t] # "returned") =>
                    task[t] \in {"select", "sleeping"} /\ shutdown_rx[t]
             /\ task[t] = "returned" => task'[t] = "returned"]_vars
    /\ [](\A t \in {"fetch state", "maintain state"} :
             task[t] = "returned" =>
                /\ pc[Handler(t)] = "idle"
                /\ lock.writer # Handler(t) /\ sys_lock # Handler(t))
    /\ (\A t \in BgTasks : shutdown_rx[t]) ~>
           (\A t \in BgTasks : task[t] = "returned")

\* the message has been broadcast and two tasks have returned, while the
\* run of the collector is carried on: it is at the third of its appends
C15_Witness ==
    /\ \A t \in BgTasks : shutdown_rx[t]
    /\ task["maintain state"] = "returned"
    /\ task["fetch inventory"] = "returned"
    /\ task["fetch state"] = "in_run"
    /\ pc["fetch"] = "append" /\ idx["fetch"] = 3

---------------------------------------------------------------------------
\* C21: whenever the raw series of a row is non-empty, the hourly, daily
\* and weekly stores each hold an entry at the truncation of the greatest
\* raw instant, and these three entries are nested: the hour's count is at
\* most the day's and the day's at most the week's, the week's minimum is at
\* most the day's and the day's at most the hour's, and the hour's maximum
\* is at most the day's and the day's at most the week's.
C21_CurrentEntriesNested ==
    \A s \in Series :
        DOMAIN ts[s].raw_data # {} =>
            LET latest == SetMax(DOMAIN ts[s].raw_data)
                kh == truncate_to_hour(latest)
                kd == truncate_to_day(latest)
                kw == truncate_to_week(latest)
            IN  /\ kh \in DOMAIN ts[s].hourly_data
                /\ kd \in DOMAIN ts[s].daily_data
                /\ kw \in DOMAIN ts[s].weekly_data
                /\ LET h == ts[s].hourly_data[kh]
                       d == ts[s].daily_data[kd]
                       w == ts[s].weekly_data[kw]
                   IN  /\ h.count <= d.count /\ d.count <= w.count
                       /\ \A e \in {h, d, w} : e.min.is_some /\ e.max.is_some
                       /\ w.min.value <= d.min.value
                       /\ d.min.value <= h.min.value
                       /\ h.max.value <= d.max.value
                       /\ d.max.value <= w.max.value

\* the current hour holds fewer points than the current day and a greater
\* minimum, after a retention has evicted an older point of that day
C21_Witness ==
    /\ last.op = "maintain"
    /\ \E s \in Series :
          /\ DOMAIN ts[s].raw_data = {Monday + HalfHour, Monday + HOUR}
          /\ ts[s].hourly_data[Monday + HOUR].count = 1
          /\ ts[s].daily_data[Monday].count = 3
          /\ ts[s].weekly_data[Sunday].count = 3
          /\ ts[s].daily_data[Monday].min.value
                 < ts[s].hourly_data[Monday + HOUR].min.value

---------------------------------------------------------------------------
(* The handlers of AppState under the lock granting of tokio's RwLock: a   *)
(* call that asks for the lock joins the queue of the lock and is granted  *)
(* it at the head of the queue, a writer once nobody holds the lock and a  *)
(* reader once no writer holds it; whoever arrives while the queue is not  *)
(* empty waits behind it.  The steps made while a lock is held are those   *)
(* of SpecConc.  The clock stands still here.                              *)

\* the snapshots handed to update_state here: one taken at an instant, which
\* repeated calls ingest again, and one without last_update
LockSnapshots == {Snapshot(Some(Monday), 1), Snapshot(None, 0)}

\* update_state is called with a snapshot that has a last_update and asks
\* for the time_series write lock: state.rs:80-83
UsWrite(new_state) ==
    /\ pc["fetch"] = "idle"
    /\ applied["pv_mw"] < ConcIngest
    /\ new_state.last_update.is_some
    /\ pc' = [pc EXCEPT !["fetch"] = "write_wait"]
    /\ pending' = new_state
    /\ lock' = [lock EXCEPT !.waiters = Append(lock.waiters, "fetch")]
    /\ UNCHANGED <<ts, system_state, now, applied, last, hist, harness, bg,
                   sys_lock, idx, resp, seen>>

\* update_state is called with a snapshot without last_update and returns
\* at once: state.rs:80-82
UsSkip(new_state) ==
    /\ pc["fetch"] = "idle"
    /\ ~new_state.last_update.is_some
    /\ UNCHANGED <<ts, system_state, now, applied, last, hist, harness, bg,
                   conc>>

\* self.time_series.write().await is granted: state.rs:83
UsGranted ==
    /\ pc["fetch"] = "write_wait"
    /\ lock.waiters # << >> /\ Head(lock.waiters) = "fetch"
    /\ CanWrite(lock)
    /\ lock' = [lock EXCEPT !.writer = "fetch", !.waiters = Tail(lock.waiters)]
    /\ pc' = [pc EXCEPT !["fetch"] = "append"]
    /\ idx' = [idx EXCEPT !["fetch"] = 1]
    /\ UNCHANGED <<ts, system_state, now, applied, last, hist, harness, bg,
                   sys_lock, pending, resp, seen>>

\* maintain is called and asks for the time_series write lock: state.rs:98
MtWrite ==
    /\ pc["maint"] = "idle"
    /\ pc' = [pc EXCEPT !["maint"] = "write_wait"]
    /\ lock' = [lock EXCEPT !.waiters = Append(lock.waiters, "maint")]
    /\ UNCHANGED <<ts, system_state, now, applied, last, hist, harness, bg,
                   sys_lock, idx, pending, resp, seen>>

\* self.time_series.write().await is granted: state.rs:98
MtGranted ==
    /\ pc["maint"] = "write_wait"
    /\ lock.waiters # << >> /\ Head(lock.waiters) = "maint"
    /\ CanWrite(lock)
    /\ lock' = [lock EXCEPT !.writer = "maint", !.waiters = Tail(lock.waiters)]
    /\ pc' = [pc EXCEPT !["maint"] = "maintain"]
    /\ idx' = [idx EXCEPT !["maint"] = 1]
    /\ UNCHANGED <<ts, system_state, now, applied, last, hist, harness, bg,
                   sys_lock, pending, resp, seen>>

\* history is called and asks for the time_series read lock: state.rs:70
HsRead(r) ==
    /\ pc[r] = "idle"
    /\ pc' = [pc EXCEPT ![r] = "read_wait"]
    /\ lock' = [lock EXCEPT !.waiters = Append(lock.waiters, r)]
    /\ UNCHANGED <<ts, system_state, now, applied, last, hist, harness, bg,
                   sys_lock, idx, pending, resp, seen>>

\* self.time_series.read().await is granted: state.rs:70
HsGranted(r) ==
    /\ pc[r] = "read_wait"
    /\ lock.waiters # << >> /\ Head(lock.waiters) = r
    /\ CanRead(lock)
    /\ lock' = [lock EXCEPT !.readers = lock.readers \cup {r},
                            !.waiters = Tail(lock.waiters)]
    /\ pc' = [pc EXCEPT ![r] = "summary"]
    /\ idx' = [idx EXCEPT ![r] = 1]
    /\ resp' = [resp EXCEPT ![r] = EmptyMap]
    /\ seen' = [seen EXCEPT ![r] = EmptyMap]
    /\ UNCHANGED <<ts, system_state, now, applied, last, hist, harness, bg,
                   sys_lock, pending>>

\* the steps of a started update_state, but for its appends
UpdateStateNext ==
    \/ UsGranted
    \/ UsRelease
    \/ UsStateAcquire
    \/ UsStateStore

\* the steps of a started maintain
MaintainNext ==
    \/ MtGranted
    \/ MtMaintain
    \/ MtRelease

\* the steps of a started history
HistoryNext(r) ==
    \/ HsGranted(r)
    \/ HsSummary(r)
    \/ HsReturn(r)

NextLocks ==
    \/ \E new_state \in LockSnapshots : UsWrite(new_state)
    \/ \E new_state \in LockSnapshots : UsSkip(new_state)
    \/ UsGranted
    \/ UsAppend
    \/ UsRelease
    \/ UsStateAcquire
    \/ UsStateStore
    \/ MtWrite
    \/ MtGranted
    \/ MtMaintain
    \/ MtRelease
    \/ \E r \in Readers : HsRead(r)
    \/ \E r \in Readers : HsGranted(r)
    \/ \E r \in Readers : HsSummary(r)
    \/ \E r \in Readers : HsReturn(r)

\* a call that has been made is carried on by the runtime: a task that can
\* take a step eventually takes one.  Nothing obliges a call to be made.
SpecLocks ==
    /\ Init /\ [][NextLocks]_vars
    /\ WF_vars(UpdateStateNext)
    /\ WF_applied(UsAppendTaken)
    /\ WF_vars(MaintainNext)
    /\ \A r \in Readers : WF_vars(HistoryNext(r))

\* the locks of AppState a task holds
Held(t) ==
    (IF lock.writer = t \/ t \in lock.readers THEN {"time_series"} ELSE {})
        \cup (IF sys_lock = t THEN {"system_state"} ELSE {})

\* the task is waiting for a lock of AppState
Waiting(t) ==
    \/ pc[t] \in {"write_wait", "read_wait"}
    \/ pc[t] = "state_wait"

---------------------------------------------------------------------------
\* C22: the tasks cannot deadlock on the locks of AppState: no task ever
\* holds two of them at once, no task waits for one while it holds another,
\* and, the locks being granted in order of arrival, every update_state,
\* maintain and history call that has started eventually returns.
C22_NoDeadlockOnLocks ==
    /\ [](\A t \in Tasks : Cardinality(Held(t)) <= 1)
    /\ [](\A t \in Tasks : Waiting(t) => Held(t) = {})
    /\ \A t \in Tasks : (pc[t] # "idle") ~> (pc[t] = "idle")

\* the collector has let go of time_series and holds system_state, while a
\* reader holds time_series and the retention task and the other reader
\* wait for it in that order
C22_Witness ==
    /\ pc["fetch"] = "state_held"
    /\ Held("fetch") = {"system_state"}
    /\ Held("r1") = {"time_series"}
    /\ lock.waiters = <<"maint", "r2">>
    /\ \A s \in Series : applied[s] = ConcIngest

---------------------------------------------------------------------------
(* Statistics::from_points applied to single collections of points *)

\* the points: negative, zero and positive, far from the ends of i64
Points == (0 - MaxPoint)..MaxPoint

\* the non-empty collections handed to from_points, in iteration order
PointLists == UNION {[1..n -> Points] : n \in 1..MaxLen}

InitStats ==
    /\ InitBundle /\ InitConc /\ InitBg
    /\ arg \in PointLists
    /\ res = [f |-> "none"]

ApplyFromPoints ==
    /\ res' = [f |-> "from_points", out |-> from_points(arg)]
    /\ UNCHANGED <<ts, system_state, now, applied, last, hist, arg, conc, bg>>

NextStats == ApplyFromPoints

SpecStats == InitStats /\ [][NextStats]_vars

RECURSIVE SeqSum(_)
SeqSum(values) ==
    IF values = << >> THEN 0 ELSE Head(values) + SeqSum(Tail(values))

\* C23: for the Statistics from_points computes over a non-empty collection
\* of integers, of any signs, min <= average <= max, where average is the
\* sum divided by the count and rounded toward zero, and min and max are
\* the least and the greatest of the points.
C23_AverageWithinMinMax ==
    res.f = "from_points" =>
        /\ res.out.count = Len(arg)
        /\ res.out.min = Some(SetMin({arg[i] : i \in DOMAIN arg}))
        /\ res.out.max = Some(SetMax({arg[i] : i \in DOMAIN arg}))
        /\ res.out.average = Quotient(SeqSum(arg), Len(arg))
        /\ res.out.min.value <= res.out.average
        /\ res.out.average <= res.out.max.value

\* points of both signs with a negative sum that the count does not divide:
\* the average is rounded up toward zero, and lies strictly between min and
\* max
C23_Witness ==
    /\ res.f = "from_points"
    /\ \E i, j \in DOMAIN arg : arg[i] < 0 /\ arg[j] > 0
    /\ SeqSum(arg) < 0
    /\ SeqSum(arg) % Len(arg) # 0
    /\ res.out.average = (SeqSum(arg) \div Len(arg)) + 1
    /\ res.out.min.value < res.out.average
    /\ res.out.average < res.out.max.value

===========================================================================
